---- MODULE Spec2Model ----
(***************************************************************************)
(* nvhost_ctrl: the event slot table and the control commands of the       *)
(* emulated GPU control device (src/core/hle/service/nvdrv/devices/        *)
(* nvhost_ctrl.cpp).                                                       *)
(*                                                                         *)
(* Two execution contexts are modelled.  The command context runs one      *)
(* ioctl at a time (every handler takes events_mutex for its slow path);   *)
(* the delivery context runs SignalNvEvent without the mutex.  Each action *)
(* of either context holds at most one access to a location the other      *)
(* context can touch (status, assigned_syncpt, assigned_value, kevent,     *)
(* events_mask, the host event object, the bridge, the oracle), so every   *)
(* interleaving of the two at that grain is explored.                      *)
(***************************************************************************)
EXTENDS Integers, FiniteSets, Sequences, TLC

\* ------------------------------------------------------------------ bounds
\* Capacity of the slot table (scaled down from the hardware constant).
MaxNvEvents == 2
\* Number of syncpoints (scaled down).
MaxSyncPoints == 2
\* Largest syncpoint counter value and fence target.
MaxValue == 1
\* Host event objects that can be created in one run.
MaxKEvents == 3
\* Commands issued in one run, with any arguments.
MaxCmds == 3
\* Commands issued in one run that names slot 0 and syncpoint 0 only.
MaxDeepCmds == 5
\* Commands issued in one such run in which no delivery overlaps a command.
MaxSeqCmds == 7
\* Cap of the fails counter (u32 in the code).
MaxFails == 3
\* Commands issued before the round trip Register; Unregister; Register.
MaxTripPrefix == 2

\* ---------------------------------------------------------------- constants
\* check_failing: events[slot].fails > 2
FailThreshold == 2
\* IocCtrlEventUnregister: user_event_id & 0x00FF
UnregisterIdMask == 255

Slots == 0 .. (MaxNvEvents - 1)
SyncPts == 0 .. (MaxSyncPoints - 1)
Values == 0 .. MaxValue
Fences == SyncPts \X (1 .. MaxValue)
NoKEvent == 0
KEvents == 1 .. MaxKEvents

Min(S) == CHOOSE x \in S : \A y \in S : x <= y

\* std::countr_zero of a non-zero mask: the index of its lowest set bit.
\* A mask is held as the set of its set bit positions.
CountrZero(mask) == Min(mask)

\* NvEvent::IsBeingUsed (declared in nvhost_ctrl.h; stated in the spec, 3)
IsBeingUsed(status) == status \in {"Waiting", "Cancelling", "Signalling"}

\* SyncpointManager::IsSyncpointExpired on the cached minimum.
IsSyncpointExpired(min, threshold) == min >= threshold

VARIABLES
    events,       \* the slot table: status, registered, assigned fence, fails, kevent
    events_mask,  \* bit i set: slot i registered (as the code maintains it)
    kheap,        \* host event objects: "unused" | "clear" | "signaled" | "freed"
    syncpt_min,   \* the oracle's cached minimum per syncpoint
    gpu_value,    \* the GPU side counter per syncpoint
    interrupts,   \* the bridge: pending register_interrupt per fence (a count)
    bridge_log,   \* the bridge calls made by the command in flight
    stalled,      \* the process-wide stall
    fault,        \* "none", or the undefined behaviour / assertion that stopped the host
    cmd,          \* the command context: the ioctl in flight, its locals, its result
    sig,          \* the delivery context: SignalNvEvent's position and locals
    budget        \* the commands issued so far, and the kind of run this is

vars == <<events, events_mask, kheap, syncpt_min, gpu_value, interrupts,
          bridge_log, stalled, fault, cmd, sig, budget>>

NvEventInit ==
    [status |-> "Available", registered |-> FALSE, assigned_syncpt |-> 0,
     assigned_value |-> 0, fails |-> 0, kevent |-> NoKEvent]

CmdIdle ==
    [op |-> "none", pc |-> "done", result |-> "none",
     fence_id |-> 0, fence_value |-> 0, timeout |-> 0, is_allocation |-> FALSE,
     event_id |-> 0, out_value |-> [raw |-> 0, syncpoint_id |-> 0, event_allocated |-> FALSE], slot |-> 0, free_slot |-> 0, found |-> 0,
     i |-> 0, user_events |-> {}, event_mask |-> {}, prior |-> "none",
     unmark |-> FALSE,
     target |-> 0, alloc |-> "none"]

SigIdle ==
    [pc |-> "idle", syncpoint_id |-> 0, value |-> 0, signal_mask |-> {},
     event_id |-> 0, prior |-> "none", kevent |-> NoKEvent]

Init ==
    /\ events = [s \in Slots |-> NvEventInit]
    /\ events_mask = {}
    /\ kheap = [k \in KEvents |-> "unused"]
    /\ syncpt_min = [s \in SyncPts |-> 0]
    /\ gpu_value = [s \in SyncPts |-> 0]
    /\ interrupts = [f \in Fences |-> 0]
    /\ bridge_log = <<>>
    /\ stalled = FALSE
    /\ fault = "none"
    /\ cmd = CmdIdle
    /\ sig = SigIdle
    /\ budget = [cmds |-> 0, wide |-> FALSE, trip |-> 0, first |-> NoKEvent]

\* A new ioctl can enter: none in flight, the host alive, the guest not stalled.
CanIssue ==
    /\ cmd.pc = "done"
    /\ fault = "none"
    /\ ~stalled

Running(op, pc) == cmd.op = op /\ cmd.pc = pc /\ fault = "none"

\* The command in flight returns `result`; the locals of FindFreeNvEvent's loop
\* are dead (what the scan ended on stays in `alloc`).
Retire(c, result) ==
    [c EXCEPT !.pc = "done", !.result = result, !.i = 0, !.found = 0,
              !.free_slot = 0]
Return(result) == Retire(cmd, result)

\* ------------------------------------------------- FreeEvent / FreeNvEvent
\* FreeEvent(slot), up to its call of FreeNvEvent; the three results and the
\* continuation into FreeNvEvent.
FreeEventResultNoRegisteredTest(slot) ==
    IF slot >= MaxNvEvents THEN "BadParameter"
    ELSE IF IsBeingUsed(events[slot].status) THEN "Busy"
    ELSE "Free"
FreeEventResult(slot) ==
    IF slot >= MaxNvEvents THEN "BadParameter"
    ELSE IF ~events[slot].registered THEN "Success"
    ELSE IF IsBeingUsed(events[slot].status) THEN "Busy"
    ELSE "Free"

\* IocCtrlEventUnregisterBatch: if (result != NvResult::Success) return result
BatchNeverStops(result) == FALSE
BatchStops(result) == result # "Success"

\* What the caller of FreeEvent does with its result.
AfterFree(result) ==
    CASE cmd.op = "Register" ->
            IF result = "Success" THEN [cmd EXCEPT !.pc = "create_assert"]
            ELSE Return(result)
      [] cmd.op = "UnregisterBatch" ->
            IF BatchStops(result) THEN Return(result)
            ELSE [cmd EXCEPT !.pc = "batch_loop"]
      [] OTHER -> Return(result)

\* FreeNvEvent: ASSERT(event.kevent); ASSERT(event.registered);
\* ASSERT(!event.IsBeingUsed()).  A failed assertion stops the host in a build
\* with debug assertions and is only logged in a build without them.
FreeNvEventAssert ==
    /\ fault = "none" /\ cmd.pc = "free_assert"
    /\ LET e == events[cmd.slot] IN
         \/ /\ e.kevent = NoKEvent \/ ~e.registered \/ IsBeingUsed(e.status)
            /\ fault' = "assert"
            /\ cmd' = cmd
         \/ /\ cmd' = [cmd EXCEPT !.pc = "free_kevent"]
            /\ fault' = fault
    /\ UNCHANGED <<events, events_mask, kheap, syncpt_min, gpu_value, interrupts,
                   bridge_log, stalled, sig, budget>>

\* FreeNvEvent: events_interface.FreeEvent(event.kevent)
FreeNvEventDestroy ==
    /\ fault = "none" /\ cmd.pc = "free_kevent"
    /\ LET k == events[cmd.slot].kevent IN
         IF k = NoKEvent \/ kheap[k] \notin {"clear", "signaled"}
         THEN /\ fault' = "double_free"
              /\ kheap' = kheap
         ELSE /\ kheap' = [kheap EXCEPT ![k] = "freed"]
              /\ fault' = fault
    /\ cmd' = [cmd EXCEPT !.pc = "free_null"]
    /\ UNCHANGED <<events, events_mask, syncpt_min, gpu_value, interrupts,
                   bridge_log, stalled, sig, budget>>

\* FreeNvEvent: event.kevent = nullptr
FreeNvEventNull ==
    /\ fault = "none" /\ cmd.pc = "free_null"
    /\ events' = [events EXCEPT ![cmd.slot].kevent = NoKEvent]
    /\ cmd' = [cmd EXCEPT !.pc = "free_status"]
    /\ UNCHANGED <<events_mask, kheap, syncpt_min, gpu_value, interrupts,
                   bridge_log, stalled, fault, sig, budget>>

\* FreeNvEvent: event.status = EventState::Available
FreeNvEventStatus ==
    /\ fault = "none" /\ cmd.pc = "free_status"
    /\ events' = [events EXCEPT ![cmd.slot].status = "Available"]
    /\ cmd' = [cmd EXCEPT !.pc = "free_mask"]
    /\ UNCHANGED <<events_mask, kheap, syncpt_min, gpu_value, interrupts,
                   bridge_log, stalled, fault, sig, budget>>

\* FreeNvEvent: event.registered = false; events_mask &= ~(1ULL << event_id);
\* then FreeEvent returns Success to its caller.
FreeNvEventMaskKeepsBit ==
    /\ fault = "none" /\ cmd.pc = "free_mask"
    /\ events' = [events EXCEPT ![cmd.slot].registered = FALSE]
    /\ events_mask' = events_mask
    /\ cmd' = AfterFree("Success")
    /\ UNCHANGED <<kheap, syncpt_min, gpu_value, interrupts,
                   bridge_log, stalled, fault, sig, budget>>
FreeNvEventMask ==
    /\ fault = "none" /\ cmd.pc = "free_mask"
    /\ events' = [events EXCEPT ![cmd.slot].registered = FALSE]
    /\ events_mask' = events_mask \ {cmd.slot}
    /\ cmd' = AfterFree("Success")
    /\ UNCHANGED <<kheap, syncpt_min, gpu_value, interrupts,
                   bridge_log, stalled, fault, sig, budget>>

\* ------------------------------------------------------------ CreateNvEvent
\* The lowest host event object not yet handed out (EventInterface::CreateEvent).
NewKEvent == Min({k \in KEvents : kheap[k] = "unused"})
CanCreateKEvent == \E k \in KEvents : kheap[k] = "unused"

\* What the caller of CreateNvEvent does next.
AfterCreate ==
    IF cmd.op = "Register" THEN Return("Success")
    ELSE [cmd EXCEPT !.pc = "wait_resolved"]

\* CreateNvEvent: ASSERT(!event.kevent); ASSERT(!event.registered);
\* ASSERT(!event.IsBeingUsed()); stops the host or is only logged, as above.
CreateNvEventAssert ==
    /\ fault = "none" /\ cmd.pc = "create_assert"
    /\ LET e == events[cmd.slot] IN
         \/ /\ e.kevent # NoKEvent \/ e.registered \/ IsBeingUsed(e.status)
            /\ fault' = "assert"
            /\ cmd' = cmd
         \/ /\ cmd' = [cmd EXCEPT !.pc = "create_kevent"]
            /\ fault' = fault
    /\ UNCHANGED <<events, events_mask, kheap, syncpt_min, gpu_value, interrupts,
                   bridge_log, stalled, sig, budget>>

\* CreateNvEvent: event.kevent = events_interface.CreateEvent(...)
CreateNvEventKEvent ==
    /\ fault = "none" /\ cmd.pc = "create_kevent"
    /\ kheap' = [kheap EXCEPT ![NewKEvent] = "clear"]
    /\ events' = [events EXCEPT ![cmd.slot].kevent = NewKEvent]
    /\ cmd' = [cmd EXCEPT !.pc = "create_status"]
    /\ UNCHANGED <<events_mask, syncpt_min, gpu_value, interrupts,
                   bridge_log, stalled, fault, sig, budget>>

\* CreateNvEvent: event.status = EventState::Available
CreateNvEventStatus ==
    /\ fault = "none" /\ cmd.pc = "create_status"
    /\ events' = [events EXCEPT ![cmd.slot].status = "Available"]
    /\ cmd' = [cmd EXCEPT !.pc = "create_mask"]
    /\ UNCHANGED <<events_mask, kheap, syncpt_min, gpu_value, interrupts,
                   bridge_log, stalled, fault, sig, budget>>

\* CreateNvEvent: event.registered = true; event.fails = 0; events_mask |= mask
CreateNvEventMask ==
    /\ fault = "none" /\ cmd.pc = "create_mask"
    /\ events' = [events EXCEPT ![cmd.slot].registered = TRUE,
                                ![cmd.slot].fails = 0]
    /\ events_mask' = events_mask \cup {cmd.slot}
    /\ cmd' = [cmd EXCEPT !.pc = "create_syncpt"]
    /\ UNCHANGED <<kheap, syncpt_min, gpu_value, interrupts,
                   bridge_log, stalled, fault, sig, budget>>

\* CreateNvEvent: event.assigned_syncpt = 0; and the return to the caller.
CreateNvEventSyncpt ==
    /\ fault = "none" /\ cmd.pc = "create_syncpt"
    /\ events' = [events EXCEPT ![cmd.slot].assigned_syncpt = 0]
    /\ cmd' = AfterCreate
    /\ UNCHANGED <<events_mask, kheap, syncpt_min, gpu_value, interrupts,
                   bridge_log, stalled, fault, sig, budget>>

\* ------------------------------------------------------ IocCtrlEventRegister
\* IocCtrlEventRegister up to its first call that writes: the range check, the
\* registered test and FreeEvent's tests.
IocCtrlEventRegister(event_id) ==
    /\ CanIssue /\ CanCreateKEvent
    /\ bridge_log' = <<>>
    /\ LET c == [CmdIdle EXCEPT !.op = "Register", !.event_id = event_id,
                                !.slot = event_id, !.pc = "run"]
       IN cmd' =
            IF event_id >= MaxNvEvents
            THEN [c EXCEPT !.pc = "done", !.result = "BadParameter"]
            ELSE IF ~events[event_id].registered
            THEN [c EXCEPT !.pc = "create_assert"]
            ELSE IF FreeEventResult(event_id) = "Free"
            THEN [c EXCEPT !.pc = "free_assert"]
            ELSE [c EXCEPT !.pc = "done", !.result = FreeEventResult(event_id)]
    /\ UNCHANGED <<events, events_mask, kheap, syncpt_min, gpu_value, interrupts,
                   stalled, fault, sig>>

\* ---------------------------------------------------- IocCtrlEventUnregister
\* IocCtrlEventUnregister: event_id = user_event_id & 0x00FF; FreeEvent(event_id)
\* up to its call of FreeNvEvent.
IocCtrlEventUnregister(user_event_id) ==
    /\ CanIssue
    /\ bridge_log' = <<>>
    /\ LET event_id == user_event_id % (UnregisterIdMask + 1)
           c == [CmdIdle EXCEPT !.op = "Unregister", !.event_id = user_event_id,
                                !.slot = event_id, !.pc = "run"]
       IN cmd' =
            IF FreeEventResult(event_id) = "Free"
            THEN [c EXCEPT !.pc = "free_assert"]
            ELSE [c EXCEPT !.pc = "done", !.result = FreeEventResult(event_id)]
    /\ UNCHANGED <<events, events_mask, kheap, syncpt_min, gpu_value, interrupts,
                   stalled, fault, sig>>

\* ----------------------------------------------- IocCtrlEventUnregisterBatch
\* IocCtrlEventUnregisterBatch: the parameter block and the lock.
IocCtrlEventUnregisterBatch(user_events) ==
    /\ CanIssue
    /\ bridge_log' = <<>>
    /\ cmd' = [CmdIdle EXCEPT !.op = "UnregisterBatch", !.user_events = user_events,
                              !.event_mask = user_events, !.pc = "batch_loop"]
    /\ UNCHANGED <<events, events_mask, kheap, syncpt_min, gpu_value, interrupts,
                   stalled, fault, sig>>

\* One turn of the while loop: the lowest set bit is taken out of the mask and
\* FreeEvent is called on it; the loop ends on an empty mask or a result other
\* than Success.
UnregisterBatchLoop ==
    /\ Running("UnregisterBatch", "batch_loop")
    /\ IF cmd.event_mask = {}
       THEN cmd' = Return("Success")
       ELSE LET event_id == CountrZero(cmd.event_mask)
                c == [cmd EXCEPT !.event_mask = cmd.event_mask \ {event_id},
                                 !.slot = event_id]
            IN cmd' =
                 IF FreeEventResult(event_id) = "Free"
                 THEN [c EXCEPT !.pc = "free_assert"]
                 ELSE IF BatchStops(FreeEventResult(event_id))
                 THEN Retire(c, FreeEventResult(event_id))
                 ELSE [c EXCEPT !.pc = "batch_loop"]
    /\ UNCHANGED <<events, events_mask, kheap, syncpt_min, gpu_value, interrupts,
                   bridge_log, stalled, fault, sig, budget>>

\* ------------------------------------------------------ the bridge, the oracle
\* GPU::RegisterSyncptInterrupt / CancelSyncptInterrupt on the pending set.
RegisterSyncptInterrupt(pending, f) == [pending EXCEPT ![f] = @ + 1]
CancelSyncptInterrupt(pending, f) ==
    IF f \in Fences /\ pending[f] > 0 THEN [pending EXCEPT ![f] = @ - 1] ELSE pending

\* SyncpointManager::RefreshSyncpoint: the cached minimum catches up with the GPU.
RefreshSyncpoint(mins, id) == [mins EXCEPT ![id] = gpu_value[id]]

\* ----------------------------------------------------- IocCtrlClearEventWait
\* IocCtrlClearEventWait: the range check and event.status.exchange(Cancelling).
IocCtrlClearEventWaitAnyPrior(event_id) ==
    /\ CanIssue
    /\ event_id < MaxNvEvents => events[event_id].fails < MaxFails
    /\ bridge_log' = <<>>
    /\ LET c == [CmdIdle EXCEPT !.op = "ClearEventWait", !.event_id = event_id,
                                !.slot = event_id, !.pc = "run"]
       IN IF event_id >= MaxNvEvents
          THEN /\ cmd' = [c EXCEPT !.pc = "done", !.result = "BadParameter"]
               /\ events' = events
          ELSE /\ cmd' = [c EXCEPT !.prior = events[event_id].status,
                                   !.pc = "clear_cancel"]
               /\ events' = [events EXCEPT ![event_id].status = "Cancelling"]
    /\ UNCHANGED <<events_mask, kheap, syncpt_min, gpu_value, interrupts,
                   stalled, fault, sig>>
IocCtrlClearEventWait(event_id) ==
    /\ CanIssue
    /\ event_id < MaxNvEvents => events[event_id].fails < MaxFails
    /\ bridge_log' = <<>>
    /\ LET c == [CmdIdle EXCEPT !.op = "ClearEventWait", !.event_id = event_id,
                                !.slot = event_id, !.pc = "run"]
       IN IF event_id >= MaxNvEvents
          THEN /\ cmd' = [c EXCEPT !.pc = "done", !.result = "BadParameter"]
               /\ events' = events
          ELSE /\ cmd' = [c EXCEPT !.prior = events[event_id].status,
                                   !.pc = IF events[event_id].status = "Waiting"
                                          THEN "clear_cancel" ELSE "clear_fails"]
               /\ events' = [events EXCEPT ![event_id].status = "Cancelling"]
    /\ UNCHANGED <<events_mask, kheap, syncpt_min, gpu_value, interrupts,
                   stalled, fault, sig>>

\* system.GPU().CancelSyncptInterrupt(event.assigned_syncpt, event.assigned_value)
ClearEventWaitCancel ==
    /\ Running("ClearEventWait", "clear_cancel")
    /\ LET f == <<events[cmd.slot].assigned_syncpt, events[cmd.slot].assigned_value>>
       IN /\ interrupts' = CancelSyncptInterrupt(interrupts, f)
          /\ bridge_log' = Append(bridge_log, <<"cancel_interrupt", f[1], f[2]>>)
    /\ cmd' = [cmd EXCEPT !.pc = "clear_refresh"]
    /\ UNCHANGED <<events, events_mask, kheap, syncpt_min, gpu_value,
                   stalled, fault, sig, budget>>

\* syncpoint_manager.RefreshSyncpoint(event.assigned_syncpt)
ClearEventWaitRefresh ==
    /\ Running("ClearEventWait", "clear_refresh")
    /\ syncpt_min' = RefreshSyncpoint(syncpt_min, events[cmd.slot].assigned_syncpt)
    /\ bridge_log' = Append(bridge_log, <<"refresh", events[cmd.slot].assigned_syncpt, 0>>)
    /\ cmd' = [cmd EXCEPT !.pc = "clear_fails"]
    /\ UNCHANGED <<events, events_mask, kheap, gpu_value, interrupts,
                   stalled, fault, sig, budget>>

\* event.fails++; event.status.store(EventState::Cancelled)
ClearEventWaitFails ==
    /\ Running("ClearEventWait", "clear_fails")
    /\ events' = [events EXCEPT ![cmd.slot].fails = @ + 1,
                                ![cmd.slot].status = "Cancelled"]
    /\ cmd' = [cmd EXCEPT !.pc = "clear_kevent"]
    /\ UNCHANGED <<events_mask, kheap, syncpt_min, gpu_value, interrupts,
                   bridge_log, stalled, fault, sig, budget>>

\* event.kevent->GetWritableEvent().Clear(); return NvResult::Success
ClearEventWaitClear ==
    /\ Running("ClearEventWait", "clear_kevent")
    /\ LET k == events[cmd.slot].kevent IN
         IF k = NoKEvent
         THEN /\ fault' = "null_deref" /\ kheap' = kheap /\ cmd' = cmd
         ELSE IF kheap[k] \notin {"clear", "signaled"}
         THEN /\ fault' = "use_after_free" /\ kheap' = kheap /\ cmd' = cmd
         ELSE /\ kheap' = [kheap EXCEPT ![k] = "clear"]
              /\ cmd' = Return("Success")
              /\ fault' = fault
    /\ UNCHANGED <<events, events_mask, syncpt_min, gpu_value, interrupts,
                   bridge_log, stalled, sig, budget>>

\* ----------------------------------------------------------- IocCtrlEventWait
\* params.value as written back to the caller: the raw word, and the two fields
\* packed beside the slot number when a wait is armed.
OutValue(raw, syncpoint_id, event_allocated) ==
    [raw |-> raw, syncpoint_id |-> syncpoint_id, event_allocated |-> event_allocated]

\* SCOPE_EXIT: if (must_unmark_fail) events[event_id].fails = 0, with event_id the
\* raw word of the request.  An event_id past the table is a write out of bounds.
ScopeExitEvents(ev, c) ==
    IF c.unmark /\ c.event_id < MaxNvEvents
    THEN [ev EXCEPT ![c.event_id].fails = 0]
    ELSE ev
ScopeExitFault(c) ==
    IF c.unmark /\ c.event_id >= MaxNvEvents THEN "out_of_bounds" ELSE fault

\* check_failing's test
CheckFailing(fails) == fails > FailThreshold

\* The wait's course from the lock to the first write: slot range, the poll
\* (timeout 0), registered, IsBeingUsed, check_failing.  `slot` is resolved.
WaitAfterResolve(slot, timeout) ==
    IF slot >= MaxNvEvents THEN "BadParameter"
    ELSE IF timeout = 0
    THEN (IF CheckFailing(events[slot].fails) THEN "Fallback" ELSE "Timeout")
    ELSE IF ~events[slot].registered THEN "BadParameter"
    ELSE IF IsBeingUsed(events[slot].status) THEN "BadParameter"
    ELSE IF CheckFailing(events[slot].fails) THEN "Fallback"
    ELSE "Arm"

\* IocCtrlEventWait from entry to the lock: the fence id check, target 0, the
\* expiry test, the refresh and the second expiry test; then the slot a
\* resuming wait names, or the start of FindFreeNvEvent's scan.
IocCtrlEventWait(fence_id, fence_value, timeout, is_allocation, raw) ==
    /\ CanIssue
    /\ is_allocation => CanCreateKEvent
    /\ LET c == [CmdIdle EXCEPT !.op = "Wait", !.pc = "run", !.fence_id = fence_id,
                                !.fence_value = fence_value, !.timeout = timeout,
                                !.is_allocation = is_allocation, !.event_id = raw,
                                !.out_value = OutValue(raw, 0, FALSE),
                                !.unmark = ~is_allocation, !.target = fence_value]
           exit(result, value) ==
                [c EXCEPT !.pc = "done", !.result = result,
                          !.out_value = OutValue(value, 0, FALSE)]
       IN IF fence_id >= MaxSyncPoints
          THEN /\ cmd' = exit("BadParameter", raw)
               /\ syncpt_min' = syncpt_min
               /\ bridge_log' = <<>>
               /\ events' = ScopeExitEvents(events, c)
               /\ fault' = ScopeExitFault(c)
          ELSE IF fence_value = 0 \/ IsSyncpointExpired(syncpt_min[fence_id], fence_value)
          THEN /\ cmd' = exit("Success", syncpt_min[fence_id])
               /\ syncpt_min' = syncpt_min
               /\ bridge_log' = <<>>
               /\ events' = ScopeExitEvents(events, c)
               /\ fault' = ScopeExitFault(c)
          ELSE /\ syncpt_min' = RefreshSyncpoint(syncpt_min, fence_id)
               /\ bridge_log' = << <<"refresh", fence_id, 0>> >>
               /\ IF IsSyncpointExpired(syncpt_min'[fence_id], fence_value)
                  THEN /\ cmd' = exit("Success", syncpt_min'[fence_id])
                       /\ events' = ScopeExitEvents(events, c)
                       /\ fault' = ScopeExitFault(c)
                  ELSE /\ cmd' = IF is_allocation
                                 THEN [c EXCEPT !.pc = "find_loop", !.i = 0,
                                                !.out_value = OutValue(0, 0, FALSE),
                                                !.found = MaxNvEvents,
                                                !.free_slot = MaxNvEvents]
                                 ELSE [c EXCEPT !.pc = "wait_resolved", !.slot = raw]
                       /\ events' = events
                       /\ fault' = fault
    /\ UNCHANGED <<events_mask, kheap, gpu_value, interrupts, stalled, sig>>

\* One turn of FindFreeNvEvent's for loop over slot i: the accumulators slot
\* (`found`) and free_slot, and whether the loop returns slot i at once.
FindScanStepAnySyncpt(acc, i, e, syncpoint_id) ==
    IF e.registered
    THEN IF ~IsBeingUsed(e.status)
         THEN [acc EXCEPT !.found = i, !.hit = TRUE]
         ELSE acc
    ELSE IF acc.free_slot = MaxNvEvents
         THEN [acc EXCEPT !.free_slot = i]
         ELSE acc
FindScanStep(acc, i, e, syncpoint_id) ==
    IF e.registered
    THEN IF ~IsBeingUsed(e.status)
         THEN [acc EXCEPT !.found = i, !.hit = (e.assigned_syncpt = syncpoint_id)]
         ELSE acc
    ELSE IF acc.free_slot = MaxNvEvents
         THEN [acc EXCEPT !.free_slot = i]
         ELSE acc

\* FindFreeNvEvent after the loop: "create" the first unregistered slot, else
\* the last registered idle slot, else slot 0.
FindAfterScan(acc) ==
    IF acc.free_slot < MaxNvEvents THEN [kind |-> "create", slot |-> acc.free_slot]
    ELSE IF acc.found < MaxNvEvents THEN [kind |-> "reuse", slot |-> acc.found]
    ELSE [kind |-> "exhausted", slot |-> 0]

\* FindFreeNvEvent: one loop turn, or the code after the loop.
FindFreeNvEventStep ==
    /\ Running("Wait", "find_loop")
    /\ IF cmd.i < MaxNvEvents
       THEN LET acc == FindScanStep([found |-> cmd.found, free_slot |-> cmd.free_slot,
                                     hit |-> FALSE],
                                    cmd.i, events[cmd.i], cmd.fence_id)
            IN cmd' = IF acc.hit
                      THEN [cmd EXCEPT !.slot = cmd.i, !.found = cmd.i,
                                       !.alloc = "hit", !.pc = "wait_resolved"]
                      ELSE [cmd EXCEPT !.found = acc.found,
                                       !.free_slot = acc.free_slot, !.i = cmd.i + 1]
       ELSE LET r == FindAfterScan([found |-> cmd.found, free_slot |-> cmd.free_slot,
                                    hit |-> FALSE])
            IN cmd' = [cmd EXCEPT !.slot = r.slot, !.alloc = r.kind,
                                  !.pc = IF r.kind = "create" THEN "create_assert"
                                         ELSE "wait_resolved"]
    /\ UNCHANGED <<events, events_mask, kheap, syncpt_min, gpu_value, interrupts,
                   bridge_log, stalled, fault, sig, budget>>

\* must_unmark_fail = true, then the checks up to the first write (see
\* WaitAfterResolve); the poll and the error results return here, the fallback
\* stalls the processes, the arming goes on.
WaitResolved ==
    /\ Running("Wait", "wait_resolved")
    /\ LET c == [cmd EXCEPT !.unmark = TRUE]
           way == WaitAfterResolve(cmd.slot, cmd.timeout)
       IN CASE way \in {"BadParameter", "Timeout"} ->
                 /\ cmd' = Retire(c, way)
                 /\ events' = ScopeExitEvents(events, c)
                 /\ fault' = ScopeExitFault(c)
                 /\ stalled' = stalled
            [] way = "Fallback" ->
                 /\ cmd' = [c EXCEPT !.pc = "wait_fence"]
                 /\ stalled' = TRUE
                 /\ UNCHANGED <<events, fault>>
            [] OTHER ->
                 /\ cmd' = [c EXCEPT !.pc = "arm_status"]
                 /\ UNCHANGED <<events, fault, stalled>>
    /\ UNCHANGED <<events_mask, kheap, syncpt_min, gpu_value, interrupts,
                   bridge_log, sig, budget>>

\* check_failing: system.UnstallProcesses() once gpu.WaitFence has returned.
UnstallProcesses(s) == FALSE

\* check_failing: gpu.WaitFence(fence_id, target_value) returns (the fence is
\* reached), system.UnstallProcesses(), params.value.raw = target_value, and
\* the caller returns Success.
WaitFenceReturns ==
    /\ Running("Wait", "wait_fence")
    /\ gpu_value[cmd.fence_id] >= cmd.target
    /\ stalled' = UnstallProcesses(stalled)
    /\ bridge_log' = Append(bridge_log, <<"blocking_wait", cmd.fence_id, cmd.target>>)
    /\ cmd' = Retire([cmd EXCEPT !.out_value = OutValue(cmd.target, 0, FALSE)],
                     "Success")
    /\ events' = ScopeExitEvents(events, cmd)
    /\ fault' = ScopeExitFault(cmd)
    /\ UNCHANGED <<events_mask, kheap, syncpt_min, gpu_value, interrupts, sig, budget>>

\* check_failing: gpu.WaitFence aborts (throws); the stack unwinds through lk and
\* the lock to SCOPE_EXIT, and system.UnstallProcesses() is not reached.
WaitFenceAborts ==
    /\ Running("Wait", "wait_fence")
    /\ bridge_log' = Append(bridge_log, <<"blocking_wait", cmd.fence_id, cmd.target>>)
    /\ cmd' = Return("Aborted")
    /\ events' = ScopeExitEvents(events, cmd)
    /\ fault' = ScopeExitFault(cmd)
    /\ UNCHANGED <<events_mask, kheap, syncpt_min, gpu_value, interrupts, stalled,
                   sig, budget>>

\* params.value.raw = 0; event.status.store(EventState::Waiting)
WaitArmStatus ==
    /\ Running("Wait", "arm_status")
    /\ events' = [events EXCEPT ![cmd.slot].status = "Waiting"]
    /\ cmd' = [cmd EXCEPT !.pc = "arm_syncpt", !.out_value = OutValue(0, 0, FALSE)]
    /\ UNCHANGED <<events_mask, kheap, syncpt_min, gpu_value, interrupts,
                   bridge_log, stalled, fault, sig, budget>>

\* event.assigned_syncpt = fence_id
WaitArmSyncpt ==
    /\ Running("Wait", "arm_syncpt")
    /\ events' = [events EXCEPT ![cmd.slot].assigned_syncpt = cmd.fence_id]
    /\ cmd' = [cmd EXCEPT !.pc = "arm_value"]
    /\ UNCHANGED <<events_mask, kheap, syncpt_min, gpu_value, interrupts,
                   bridge_log, stalled, fault, sig, budget>>

\* event.assigned_value = target_value; the slot number, the allocation flag and
\* the syncpoint id go into params.value
WaitArmValue ==
    /\ Running("Wait", "arm_value")
    /\ events' = [events EXCEPT ![cmd.slot].assigned_value = cmd.target]
    /\ cmd' = [cmd EXCEPT !.pc = "arm_register",
                          !.out_value = OutValue(cmd.slot, cmd.fence_id, cmd.is_allocation)]
    /\ UNCHANGED <<events_mask, kheap, syncpt_min, gpu_value, interrupts,
                   bridge_log, stalled, fault, sig, budget>>

\* gpu.RegisterSyncptInterrupt(fence_id, target_value); return NvResult::Timeout
WaitArmRegister ==
    /\ Running("Wait", "arm_register")
    /\ interrupts' = RegisterSyncptInterrupt(interrupts, <<cmd.fence_id, cmd.target>>)
    /\ bridge_log' = Append(bridge_log, <<"register_interrupt", cmd.fence_id, cmd.target>>)
    /\ cmd' = Return("Timeout")
    /\ events' = ScopeExitEvents(events, cmd)
    /\ fault' = ScopeExitFault(cmd)
    /\ UNCHANGED <<events_mask, kheap, syncpt_min, gpu_value, stalled, sig, budget>>

\* -------------------------------------------------------------- SignalNvEvent
\* The bridge finds a registered threshold crossed and calls SignalNvEvent.
BridgeTrigger(f) ==
    /\ fault = "none" /\ sig.pc = "idle"
    /\ interrupts[f] > 0
    /\ gpu_value[f[1]] >= f[2]
    /\ interrupts' = [interrupts EXCEPT ![f] = @ - 1]
    /\ sig' = [SigIdle EXCEPT !.pc = "called", !.syncpoint_id = f[1], !.value = f[2]]
    /\ UNCHANGED <<events, events_mask, kheap, syncpt_min, gpu_value,
                   bridge_log, stalled, fault, cmd, budget>>

\* u64 signal_mask = events_mask
SignalNvEventMask ==
    /\ fault = "none" /\ sig.pc = "called"
    /\ sig' = [sig EXCEPT !.pc = "loop", !.signal_mask = events_mask]
    /\ UNCHANGED <<events, events_mask, kheap, syncpt_min, gpu_value, interrupts,
                   bridge_log, stalled, fault, cmd, budget>>

\* One turn of the while loop up to the test of assigned_syncpt; the function
\* returns on an empty mask.
SignalNvEventLoop ==
    /\ fault = "none" /\ sig.pc = "loop"
    /\ IF sig.signal_mask = {}
       THEN sig' = SigIdle
       ELSE LET event_id == CountrZero(sig.signal_mask)
                s == [sig EXCEPT !.signal_mask = sig.signal_mask \ {event_id},
                                 !.event_id = event_id]
            IN sig' = IF events[event_id].assigned_syncpt # sig.syncpoint_id
                      THEN s
                      ELSE [s EXCEPT !.pc = "check_value"]
    /\ UNCHANGED <<events, events_mask, kheap, syncpt_min, gpu_value, interrupts,
                   bridge_log, stalled, fault, cmd, budget>>

\* ... || event.assigned_value != value: continue
SignalNvEventValue ==
    /\ fault = "none" /\ sig.pc = "check_value"
    /\ sig' = IF events[sig.event_id].assigned_value # sig.value
              THEN [sig EXCEPT !.pc = "loop"]
              ELSE [sig EXCEPT !.pc = "exchange"]
    /\ UNCHANGED <<events, events_mask, kheap, syncpt_min, gpu_value, interrupts,
                   bridge_log, stalled, fault, cmd, budget>>

\* event.status.exchange(EventState::Signalling) == EventState::Waiting
SignalNvEventExchangeAnyPrior ==
    /\ fault = "none" /\ sig.pc = "exchange"
    /\ events' = [events EXCEPT ![sig.event_id].status = "Signalling"]
    /\ sig' = [sig EXCEPT !.prior = events[sig.event_id].status,
                          !.pc = "load_kevent"]
    /\ UNCHANGED <<events_mask, kheap, syncpt_min, gpu_value, interrupts,
                   bridge_log, stalled, fault, cmd, budget>>
SignalNvEventExchange ==
    /\ fault = "none" /\ sig.pc = "exchange"
    /\ events' = [events EXCEPT ![sig.event_id].status = "Signalling"]
    /\ sig' = [sig EXCEPT !.prior = events[sig.event_id].status,
                          !.pc = IF events[sig.event_id].status = "Waiting"
                                 THEN "load_kevent" ELSE "store"]
    /\ UNCHANGED <<events_mask, kheap, syncpt_min, gpu_value, interrupts,
                   bridge_log, stalled, fault, cmd, budget>>

\* event.kevent (the pointer is read)
SignalNvEventLoad ==
    /\ fault = "none" /\ sig.pc = "load_kevent"
    /\ sig' = [sig EXCEPT !.kevent = events[sig.event_id].kevent, !.pc = "signal"]
    /\ UNCHANGED <<events, events_mask, kheap, syncpt_min, gpu_value, interrupts,
                   bridge_log, stalled, fault, cmd, budget>>

\* ->GetWritableEvent().Signal()
SignalNvEventSignal ==
    /\ fault = "none" /\ sig.pc = "signal"
    /\ IF sig.kevent = NoKEvent
       THEN /\ fault' = "null_deref" /\ kheap' = kheap /\ sig' = sig
       ELSE IF kheap[sig.kevent] \notin {"clear", "signaled"}
       THEN /\ fault' = "use_after_free" /\ kheap' = kheap /\ sig' = sig
       ELSE /\ kheap' = [kheap EXCEPT ![sig.kevent] = "signaled"]
            /\ sig' = [sig EXCEPT !.pc = "store"]
            /\ fault' = fault
    /\ UNCHANGED <<events, events_mask, syncpt_min, gpu_value, interrupts,
                   bridge_log, stalled, cmd, budget>>

\* event.status.store(EventState::Signalled)
SignalNvEventStore ==
    /\ fault = "none" /\ sig.pc = "store"
    /\ events' = [events EXCEPT ![sig.event_id].status = "Signalled"]
    /\ sig' = [sig EXCEPT !.pc = "loop", !.kevent = NoKEvent]
    /\ UNCHANGED <<events_mask, kheap, syncpt_min, gpu_value, interrupts,
                   bridge_log, stalled, fault, cmd, budget>>

\* ------------------------------------------------------------------- the GPU
\* A syncpoint counter advances.
GpuAdvance(s) ==
    /\ fault = "none"
    /\ gpu_value[s] < MaxValue
    /\ gpu_value' = [gpu_value EXCEPT ![s] = @ + 1]
    /\ UNCHANGED <<events, events_mask, kheap, syncpt_min, interrupts,
                   bridge_log, stalled, fault, cmd, sig, budget>>

\* ---------------------------------------------------------------------- Next
\* The guest issues an ioctl, its slot numbers drawn from `ids`, its syncpoint
\* ids from `fence_ids`.
Command(ids, fence_ids) ==
    \/ \E id \in ids : IocCtrlEventRegister(id)
    \/ \E id \in ids \cup {UnregisterIdMask + 1} : IocCtrlEventUnregister(id)
    \/ \E m \in SUBSET ids : IocCtrlEventUnregisterBatch(m)
    \/ \E id \in ids : IocCtrlClearEventWait(id)
    \/ \E f \in fence_ids, v \in Values, t \in {0, 1}, a \in BOOLEAN, raw \in ids :
          IocCtrlEventWait(f, v, t, a, raw)

\* The ioctl in flight takes its next step.
CommandStep ==
    \/ UnregisterBatchLoop
    \/ ClearEventWaitCancel
    \/ ClearEventWaitRefresh
    \/ ClearEventWaitFails
    \/ ClearEventWaitClear
    \/ FindFreeNvEventStep
    \/ WaitResolved
    \/ WaitFenceReturns
    \/ WaitFenceAborts
    \/ WaitArmStatus
    \/ WaitArmSyncpt
    \/ WaitArmValue
    \/ WaitArmRegister
    \/ FreeNvEventAssert
    \/ FreeNvEventDestroy
    \/ FreeNvEventNull
    \/ FreeNvEventStatus
    \/ FreeNvEventMask
    \/ CreateNvEventAssert
    \/ CreateNvEventKEvent
    \/ CreateNvEventStatus
    \/ CreateNvEventMask
    \/ CreateNvEventSyncpt

\* SignalNvEvent takes its next step.
SignalStep ==
    \/ SignalNvEventMask
    \/ SignalNvEventLoop
    \/ SignalNvEventValue
    \/ SignalNvEventExchange
    \/ SignalNvEventLoad
    \/ SignalNvEventSignal
    \/ SignalNvEventStore

\* A run issues up to MaxCmds commands with any arguments (a wide run), or up to
\* MaxDeepCmds commands that name slot 0 and syncpoint 0 only (a deep run).
Issue(wide) == budget' = [budget EXCEPT !.cmds = @ + 1, !.wide = wide]

Next ==
    \/ /\ budget.cmds < MaxCmds
       /\ Command(0 .. MaxNvEvents, 0 .. MaxSyncPoints)
       /\ Issue(TRUE)
    \/ /\ ~budget.wide /\ budget.cmds < MaxDeepCmds
       /\ Command({0}, {0})
       /\ Issue(FALSE)
    \/ CommandStep
    \/ \E f \in Fences : BridgeTrigger(f)
    \/ SignalStep
    \/ \E s \in SyncPts : GpuAdvance(s)

Spec == Init /\ [][Next]_vars

\* The runs in which SignalNvEvent never overlaps a command (a command enters
\* only while no delivery is in flight, a delivery only between commands) and
\* the guest names slot 0 and syncpoint 0 only.
NextSeq ==
    \/ /\ budget.cmds < MaxSeqCmds /\ sig.pc = "idle"
       /\ Command({0}, {0})
       /\ Issue(FALSE)
    \/ CommandStep
    \/ \E f \in Fences : cmd.pc = "done" /\ BridgeTrigger(f)
    \/ SignalStep
    \/ \E s \in SyncPts : GpuAdvance(s)

SeqSpec == Init /\ [][NextSeq]_vars

\* FindFreeNvEvent as a function of the table: an allocating Wait stands at the
\* head of the scan, on any table the commands leave behind (a registered slot
\* owns its event object and is in any state but the one Clear-wait passes
\* through under the lock; an unregistered slot owns none and is Available),
\* and no delivery runs.
AllocSlotStates(j) ==
    {[status |-> st, registered |-> TRUE, assigned_syncpt |-> s,
      assigned_value |-> 0, fails |-> 0, kevent |-> j + 1] :
        st \in {"Available", "Waiting", "Cancelled", "Signalling", "Signalled"},
        s \in SyncPts}
    \cup {[NvEventInit EXCEPT !.assigned_syncpt = s] : s \in SyncPts}

AllocTables ==
    {tb \in [Slots -> UNION {AllocSlotStates(j) : j \in Slots}] :
        \A j \in Slots : tb[j] \in AllocSlotStates(j)}

InitAlloc ==
    /\ events \in AllocTables
    /\ events_mask = {j \in Slots : events[j].registered}
    /\ kheap = [k \in KEvents |->
                  IF k - 1 \in Slots /\ events[k - 1].registered THEN "clear"
                  ELSE "unused"]
    /\ syncpt_min = [s \in SyncPts |-> 0]
    /\ gpu_value = [s \in SyncPts |-> 0]
    /\ interrupts = [f \in Fences |-> 0]
    /\ bridge_log = <<>>
    /\ stalled = FALSE
    /\ fault = "none"
    /\ \E s \in SyncPts :
          cmd = [CmdIdle EXCEPT !.op = "Wait", !.pc = "find_loop", !.fence_id = s,
                                !.fence_value = 1, !.target = 1, !.timeout = 1,
                                !.is_allocation = TRUE, !.found = MaxNvEvents,
                                !.free_slot = MaxNvEvents]
    /\ sig = SigIdle
    /\ budget = [cmds |-> 1, wide |-> FALSE, trip |-> 0, first |-> NoKEvent]

NextAlloc ==
    \/ FindFreeNvEventStep
    \/ CreateNvEventAssert
    \/ CreateNvEventKEvent
    \/ CreateNvEventStatus
    \/ CreateNvEventMask
    \/ CreateNvEventSyncpt

SpecAlloc == InitAlloc /\ [][NextAlloc]_vars

\* Unregister-batch on any table: every registered slot is assigned fence
\* (0, 1), which the GPU has reached, so that a delivery of that fence - due
\* for the Waiting slots, stale for the others - runs against the batch on
\* every slot; the interrupt is pending or not.
BatchSlotStates(j) ==
    {[status |-> st, registered |-> TRUE, assigned_syncpt |-> 0,
      assigned_value |-> 1, fails |-> 0, kevent |-> j + 1] :
        st \in {"Available", "Waiting", "Cancelled", "Signalling", "Signalled"}}
    \cup {NvEventInit}

InitBatch ==
    /\ events \in {tb \in [Slots -> UNION {BatchSlotStates(j) : j \in Slots}] :
                      \A j \in Slots : tb[j] \in BatchSlotStates(j)}
    /\ events_mask = {j \in Slots : events[j].registered}
    /\ kheap = [k \in KEvents |->
                  IF k - 1 \in Slots /\ events[k - 1].registered THEN "clear"
                  ELSE "unused"]
    /\ syncpt_min = [s \in SyncPts |-> 0]
    /\ gpu_value = [s \in SyncPts |-> MaxValue]
    /\ \E pending \in {0, 1} :
          interrupts = [f \in Fences |-> IF f = <<0, 1>> THEN pending ELSE 0]
    /\ bridge_log = <<>>
    /\ stalled = FALSE
    /\ fault = "none"
    /\ cmd = CmdIdle
    /\ sig = SigIdle
    /\ budget = [cmds |-> 0, wide |-> FALSE, trip |-> 0, first |-> NoKEvent]

NextBatch ==
    \/ /\ budget.cmds = 0
       /\ \E m \in SUBSET (0 .. MaxNvEvents) : IocCtrlEventUnregisterBatch(m)
       /\ Issue(FALSE)
    \/ UnregisterBatchLoop
    \/ FreeNvEventAssert
    \/ FreeNvEventDestroy
    \/ FreeNvEventNull
    \/ FreeNvEventStatus
    \/ FreeNvEventMask
    \/ BridgeTrigger(<<0, 1>>)
    \/ SignalStep

SpecBatch == InitBatch /\ [][NextBatch]_vars

\* The round trip Register(0); Unregister(0); Register(0), issued back to back
\* after up to MaxTripPrefix commands on slot 0 and syncpoint 0, from a state in
\* which slot 0 is not busy; deliveries overlap the commands as in Spec.
\* budget.trip counts the commands of the round trip issued so far and
\* budget.first holds the event object slot 0 owns as the Unregister is issued.
TripStep ==
    \/ ClearEventWaitCancel
    \/ ClearEventWaitRefresh
    \/ ClearEventWaitFails
    \/ ClearEventWaitClear
    \/ FindFreeNvEventStep
    \/ WaitResolved
    \/ WaitArmStatus
    \/ WaitArmSyncpt
    \/ WaitArmValue
    \/ WaitArmRegister
    \/ FreeNvEventAssert
    \/ FreeNvEventDestroy
    \/ FreeNvEventNull
    \/ FreeNvEventStatus
    \/ FreeNvEventMask
    \/ CreateNvEventAssert
    \/ CreateNvEventKEvent
    \/ CreateNvEventStatus
    \/ CreateNvEventMask
    \/ CreateNvEventSyncpt

NextTrip ==
    \/ /\ budget.trip = 0 /\ budget.cmds < MaxTripPrefix
       /\ \/ IocCtrlClearEventWait(0)
          \/ \E t \in {0, 1}, a \in BOOLEAN : IocCtrlEventWait(0, 1, t, a, 0)
       /\ Issue(FALSE)
    \/ /\ budget.trip = 0 /\ ~IsBeingUsed(events[0].status)
       /\ IocCtrlEventRegister(0)
       /\ budget' = [budget EXCEPT !.cmds = @ + 1, !.trip = 1]
    \/ /\ budget.trip = 1
       /\ IocCtrlEventUnregister(0)
       /\ budget' = [budget EXCEPT !.cmds = @ + 1, !.trip = 2,
                                   !.first = events[0].kevent]
    \/ /\ budget.trip = 2
       /\ IocCtrlEventRegister(0)
       /\ budget' = [budget EXCEPT !.cmds = @ + 1, !.trip = 3]
    \/ TripStep
    \/ \E f \in Fences : BridgeTrigger(f)
    \/ SignalStep
    \/ \E s \in SyncPts : GpuAdvance(s)

TripSpec == Init /\ [][NextTrip]_vars

\* SignalNvEvent on its own, on any table the commands leave behind when
\* nothing is in flight: a registered slot owns its event object and is
\* Available, Waiting, Cancelled or Signalled on any fence; an unregistered
\* slot owns none and keeps the fence of its last wait.  The GPU has reached
\* every fence and the bridge raises the interrupt of one of them.
SignalSlotStates(j) ==
    {[status |-> st, registered |-> TRUE, assigned_syncpt |-> s,
      assigned_value |-> v, fails |-> 0, kevent |-> j + 1] :
        st \in {"Available", "Waiting", "Cancelled", "Signalled"},
        s \in SyncPts, v \in 1 .. MaxValue}
    \cup {[NvEventInit EXCEPT !.assigned_syncpt = s, !.assigned_value = v] :
            s \in SyncPts, v \in 1 .. MaxValue}

InitSignal ==
    /\ events \in {tb \in [Slots -> UNION {SignalSlotStates(j) : j \in Slots}] :
                      \A j \in Slots : tb[j] \in SignalSlotStates(j)}
    /\ events_mask = {j \in Slots : events[j].registered}
    /\ kheap = [k \in KEvents |->
                  IF k - 1 \in Slots /\ events[k - 1].registered THEN "clear"
                  ELSE "unused"]
    /\ syncpt_min = [s \in SyncPts |-> 0]
    /\ gpu_value = [s \in SyncPts |-> MaxValue]
    /\ \E f \in Fences : interrupts = [g \in Fences |-> IF g = f THEN 1 ELSE 0]
    /\ bridge_log = <<>>
    /\ stalled = FALSE
    /\ fault = "none"
    /\ cmd = CmdIdle
    /\ sig = SigIdle
    /\ budget = [cmds |-> 0, wide |-> FALSE, trip |-> 0, first |-> NoKEvent]

NextSignal ==
    \/ \E f \in Fences : BridgeTrigger(f)
    \/ SignalStep

SpecSignal == InitSignal /\ [][NextSignal]_vars

\* Clear-wait on its own, on any table the commands leave behind when nothing
\* is in flight: a registered slot owns its event object, signaled or clear, is
\* Available, Waiting, Cancelled or Signalled on value 1 of any syncpoint and
\* has counted no failure or MaxFails - 1 of them; an unregistered slot owns
\* none.  The bridge holds one pending interrupt per Waiting slot and the GPU
\* has reached every fence.
ClearSlotStates(j) ==
    {[status |-> st, registered |-> TRUE, assigned_syncpt |-> s,
      assigned_value |-> 1, fails |-> n, kevent |-> j + 1] :
        st \in {"Available", "Waiting", "Cancelled", "Signalled"},
        s \in SyncPts, n \in {0, MaxFails - 1}}
    \cup {NvEventInit}

InitClear ==
    /\ events \in {tb \in [Slots -> UNION {ClearSlotStates(j) : j \in Slots}] :
                      \A j \in Slots : tb[j] \in ClearSlotStates(j)}
    /\ events_mask = {j \in Slots : events[j].registered}
    /\ kheap = [k \in KEvents |->
                  IF k - 1 \in Slots /\ events[k - 1].registered
                  THEN (IF events[k - 1].status = "Signalled" THEN "signaled"
                        ELSE "clear")
                  ELSE "unused"]
    /\ syncpt_min = [s \in SyncPts |-> 0]
    /\ gpu_value = [s \in SyncPts |-> MaxValue]
    /\ interrupts = [f \in Fences |->
                       Cardinality({j \in Slots :
                          /\ events[j].status = "Waiting"
                          /\ events[j].assigned_syncpt = f[1]
                          /\ events[j].assigned_value = f[2]})]
    /\ bridge_log = <<>>
    /\ stalled = FALSE
    /\ fault = "none"
    /\ cmd = CmdIdle
    /\ sig = SigIdle
    /\ budget = [cmds |-> 0, wide |-> FALSE, trip |-> 0, first |-> NoKEvent]

NextClear ==
    \/ /\ budget.cmds = 0
       /\ \E id \in 0 .. MaxNvEvents : IocCtrlClearEventWait(id)
       /\ Issue(FALSE)
    \/ ClearEventWaitCancel
    \/ ClearEventWaitRefresh
    \/ ClearEventWaitFails
    \/ ClearEventWaitClear

SpecClear == InitClear /\ [][NextClear]_vars

\* ~nvhost_ctrl: the owner is torn down while no ioctl is in flight.
\* budget.trip = 1 marks the device as torn down: no command follows.
DestroyStart ==
    /\ CanIssue /\ budget.trip = 0
    /\ cmd' = [CmdIdle EXCEPT !.op = "Destroy", !.pc = "dtor_loop", !.i = 0]
    /\ budget' = [budget EXCEPT !.trip = 1]
    /\ bridge_log' = <<>>
    /\ UNCHANGED <<events, events_mask, kheap, syncpt_min, gpu_value, interrupts,
                   stalled, fault, sig>>

\* One turn of the destructor's loop: for (auto& event : events)
\* if (event.registered) events_interface.FreeEvent(event.kevent)
DestroyLoopSkipsFree ==
    /\ Running("Destroy", "dtor_loop")
    /\ cmd' = IF cmd.i >= MaxNvEvents THEN Return("none")
              ELSE [cmd EXCEPT !.i = cmd.i + 1]
    /\ UNCHANGED <<events, events_mask, kheap, syncpt_min, gpu_value, interrupts,
                   bridge_log, stalled, fault, sig, budget>>
DestroyLoop ==
    /\ Running("Destroy", "dtor_loop")
    /\ IF cmd.i >= MaxNvEvents
       THEN /\ cmd' = Return("none")
            /\ UNCHANGED <<kheap, fault>>
       ELSE /\ cmd' = [cmd EXCEPT !.i = cmd.i + 1]
            /\ LET k == events[cmd.i].kevent IN
                 IF ~events[cmd.i].registered
                 THEN UNCHANGED <<kheap, fault>>
                 ELSE IF k = NoKEvent \/ kheap[k] \notin {"clear", "signaled"}
                 THEN /\ fault' = "double_free"
                      /\ kheap' = kheap
                 ELSE /\ kheap' = [kheap EXCEPT ![k] = "freed"]
                      /\ fault' = fault
    /\ UNCHANGED <<events, events_mask, syncpt_min, gpu_value, interrupts,
                   bridge_log, stalled, sig, budget>>

\* One command of any kind, then the teardown, on any table the commands leave
\* behind when no command is in flight: a registered slot owns its event object
\* and is Available, Waiting, Cancelled or Signalled on fence (0, 1), which the
\* GPU has reached; an unregistered slot owns none.  A delivery of (0, 1) - due
\* for the Waiting slots, stale for the others - runs against the command and
\* the teardown; a Wait on syncpoint 0 finds its target expired, a Wait on
\* another syncpoint does not.
LifeSlotStates(j) ==
    {[status |-> st, registered |-> TRUE, assigned_syncpt |-> 0,
      assigned_value |-> 1, fails |-> 0, kevent |-> j + 1] :
        st \in {"Available", "Waiting", "Cancelled", "Signalled"}}
    \cup {NvEventInit}

InitLife ==
    /\ events \in {tb \in [Slots -> UNION {LifeSlotStates(j) : j \in Slots}] :
                      \A j \in Slots : tb[j] \in LifeSlotStates(j)}
    /\ events_mask = {j \in Slots : events[j].registered}
    /\ kheap = [k \in KEvents |->
                  IF k - 1 \in Slots /\ events[k - 1].registered
                  THEN (IF events[k - 1].status = "Signalled" THEN "signaled"
                        ELSE "clear")
                  ELSE "unused"]
    /\ syncpt_min = [s \in SyncPts |-> 0]
    /\ gpu_value = [s \in SyncPts |-> IF s = 0 THEN MaxValue ELSE 0]
    /\ \E pending \in {0, 1} :
          interrupts = [f \in Fences |-> IF f = <<0, 1>> THEN pending ELSE 0]
    /\ bridge_log = <<>>
    /\ stalled = FALSE
    /\ fault = "none"
    /\ cmd = CmdIdle
    /\ sig = SigIdle
    /\ budget = [cmds |-> 0, wide |-> FALSE, trip |-> 0, first |-> NoKEvent]

LifeCommand ==
    \/ \E id \in 0 .. MaxNvEvents : IocCtrlEventRegister(id)
    \/ \E id \in 0 .. MaxNvEvents \cup {UnregisterIdMask + 1} :
          IocCtrlEventUnregister(id)
    \/ \E m \in SUBSET (0 .. MaxNvEvents) : IocCtrlEventUnregisterBatch(m)
    \/ \E id \in 0 .. MaxNvEvents : IocCtrlClearEventWait(id)
    \/ \E f \in SyncPts, t \in {0, 1}, a \in BOOLEAN, raw \in 0 .. MaxNvEvents :
          IocCtrlEventWait(f, 1, t, a, raw)

LifeStep ==
    \/ UnregisterBatchLoop
    \/ ClearEventWaitCancel
    \/ ClearEventWaitRefresh
    \/ ClearEventWaitFails
    \/ ClearEventWaitClear
    \/ FindFreeNvEventStep
    \/ WaitResolved
    \/ WaitArmStatus
    \/ WaitArmSyncpt
    \/ WaitArmValue
    \/ WaitArmRegister
    \/ FreeNvEventAssert
    \/ FreeNvEventDestroy
    \/ FreeNvEventNull
    \/ FreeNvEventStatus
    \/ FreeNvEventMask
    \/ CreateNvEventAssert
    \/ CreateNvEventKEvent
    \/ CreateNvEventStatus
    \/ CreateNvEventMask
    \/ CreateNvEventSyncpt

NextLife ==
    \/ /\ budget.cmds = 0 /\ budget.trip = 0
       /\ LifeCommand
       /\ Issue(FALSE)
    \/ LifeStep
    \/ DestroyStart
    \/ DestroyLoop
    \/ BridgeTrigger(<<0, 1>>)
    \/ SignalStep

LifeSpec == InitLife /\ [][NextLife]_vars

\* One Clear-wait on any slot id and the delivery of fence (0, 1), on any table
\* of InitLife, with the scheduling the host gives them: the thread inside
\* IocCtrlClearEventWait keeps running until it returns, and so does the
\* interrupt thread inside SignalNvEvent (weak fairness of each).
ClearStep ==
    \/ ClearEventWaitCancel
    \/ ClearEventWaitRefresh
    \/ ClearEventWaitFails
    \/ ClearEventWaitClear

NextBusy ==
    \/ /\ budget.cmds = 0
       /\ \E id \in 0 .. MaxNvEvents : IocCtrlClearEventWait(id)
       /\ Issue(FALSE)
    \/ ClearStep
    \/ BridgeTrigger(<<0, 1>>)
    \/ SignalStep

FairBusySpec ==
    /\ InitLife
    /\ [][NextBusy]_vars
    /\ WF_vars(ClearStep)
    /\ WF_vars(SignalStep)

\* Unregister(id), and Unregister(id) again, for any id, on any table of
\* InitLife; on some tables a delivery that has exchanged a registered slot's status to
\* Signalling is waiting to run (it takes no step between the two calls), so
\* that FreeEvent's Busy result occurs.
InitUnregister ==
    /\ \E tb \in {tb \in [Slots -> UNION {LifeSlotStates(j) : j \in Slots}] :
                     \A j \in Slots : tb[j] \in LifeSlotStates(j)} :
          /\ events_mask = {j \in Slots : tb[j].registered}
          /\ kheap = [k \in KEvents |->
                        IF k - 1 \in Slots /\ tb[k - 1].registered
                        THEN (IF tb[k - 1].status = "Signalled" THEN "signaled"
                              ELSE "clear")
                        ELSE "unused"]
          /\ \/ /\ events = tb
                /\ sig = SigIdle
             \/ \E j \in Slots :
                   /\ tb[j].registered /\ tb[j].status # "Waiting"
                   /\ events = [tb EXCEPT ![j].status = "Signalling"]
                   /\ sig = [SigIdle EXCEPT !.pc = "store", !.event_id = j,
                                            !.value = 1, !.prior = tb[j].status]
    /\ syncpt_min = [s \in SyncPts |-> 0]
    /\ gpu_value = [s \in SyncPts |-> IF s = 0 THEN MaxValue ELSE 0]
    /\ interrupts = [f \in Fences |-> 0]
    /\ bridge_log = <<>>
    /\ stalled = FALSE
    /\ fault = "none"
    /\ cmd = CmdIdle
    /\ budget = [cmds |-> 0, wide |-> FALSE, trip |-> 0, first |-> NoKEvent]

NextUnregister ==
    \/ /\ budget.cmds <= 1
       /\ \E id \in 0 .. MaxNvEvents \cup {UnregisterIdMask + 1} :
             /\ budget.cmds = 1 => id = cmd.event_id
             /\ IocCtrlEventUnregister(id)
       /\ Issue(FALSE)
    \/ FreeNvEventAssert
    \/ FreeNvEventDestroy
    \/ FreeNvEventNull
    \/ FreeNvEventStatus
    \/ FreeNvEventMask

SpecUnregister == InitUnregister /\ [][NextUnregister]_vars

\* The wait cycles on slot 0: Register(0), then FailThreshold + 1 times a
\* resuming Wait on fence (0, 1) with a nonzero timeout that returns Timeout and
\* a Clear-wait on slot 0, then one more resuming Wait on slot 0; deliveries
\* overlap the commands as in Spec.  budget.trip counts the commands of this
\* script issued so far; a Wait that does not arm ends the script.
WaitCycles == FailThreshold + 1

CycleStep ==
    \/ ClearEventWaitCancel
    \/ ClearEventWaitRefresh
    \/ ClearEventWaitFails
    \/ ClearEventWaitClear
    \/ WaitResolved
    \/ WaitArmStatus
    \/ WaitArmSyncpt
    \/ WaitArmValue
    \/ WaitArmRegister
    \/ CreateNvEventAssert
    \/ CreateNvEventKEvent
    \/ CreateNvEventStatus
    \/ CreateNvEventMask
    \/ CreateNvEventSyncpt

NextCycle ==
    \/ /\ budget.trip = 0
       /\ IocCtrlEventRegister(0)
       /\ budget' = [budget EXCEPT !.cmds = @ + 1, !.trip = 1]
    \/ /\ budget.trip % 2 = 1 /\ budget.trip < 2 * WaitCycles
       /\ cmd.result = "Success"
       /\ IocCtrlEventWait(0, 1, 1, FALSE, 0)
       /\ budget' = [budget EXCEPT !.cmds = @ + 1, !.trip = @ + 1]
    \/ /\ budget.trip % 2 = 0 /\ budget.trip > 0 /\ budget.trip <= 2 * WaitCycles
       /\ cmd.op = "Wait" /\ cmd.result = "Timeout"
       /\ IocCtrlClearEventWait(0)
       /\ budget' = [budget EXCEPT !.cmds = @ + 1, !.trip = @ + 1]
    \/ /\ budget.trip = 2 * WaitCycles + 1
       /\ cmd.result = "Success"
       /\ \E t \in {0, 1} : IocCtrlEventWait(0, 1, t, FALSE, 0)
       /\ budget' = [budget EXCEPT !.cmds = @ + 1, !.trip = @ + 1]
    \/ CycleStep
    \/ \E f \in Fences : BridgeTrigger(f)
    \/ SignalStep
    \/ \E s \in SyncPts : GpuAdvance(s)

CycleSpec == Init /\ [][NextCycle]_vars

\* ------------------------------------------------------------------- claims
\* The host event object slot k owns is signaled.
Signaled(k) ==
    events[k].kevent # NoKEvent /\ kheap[events[k].kevent] = "signaled"

\* SignalNvEvent is on slot k and its exchange found `prior` there.
DeliveryOn(k, prior) ==
    /\ sig.pc \in {"load_kevent", "signal", "store"}
    /\ sig.event_id = k /\ sig.prior = prior

\* IocCtrlClearEventWait is on slot k, past its exchange, which found `prior`.
ClearWaitOn(k, prior) ==
    /\ cmd.op = "ClearEventWait" /\ cmd.pc \in {"clear_cancel", "clear_refresh",
                                               "clear_fails", "clear_kevent"}
    /\ cmd.slot = k /\ cmd.prior = prior

\* C1: when Clear-wait and signal delivery race on an armed slot, exactly one of
\* them takes the slot out of Waiting and only the winner's side effect fires:
\* if the delivery won (Clear-wait's exchange found Signalling), Clear-wait
\* neither increments fails nor clears the event object; if Clear-wait won (the
\* delivery's exchange found Cancelling), the event object is not signaled.
C1_OnlyTheWinnerActs ==
    [][\A k \in Slots :
         /\ (DeliveryOn(k, "Waiting") /\ ClearWaitOn(k, "Signalling")) =>
               /\ events'[k].fails = events[k].fails
               /\ \A h \in KEvents : kheap'[h] = "clear" => kheap[h] = "clear"
         /\ (DeliveryOn(k, "Cancelling") /\ ClearWaitOn(k, "Waiting")) =>
               \A h \in KEvents : kheap'[h] = "signaled" => kheap[h] = "signaled"
      ]_vars

\* The calls `call` the command in flight has made to the bridge, in order.
BridgeCalls(call) == SelectSeq(bridge_log, LAMBDA c : c[1] = call)

\* The resuming Wait with a nonzero timeout that named slot k has returned
\* Timeout with the wait armed on (s, v), and no command has come since.
ArmedBy(k, s, v) ==
    /\ cmd.op = "Wait" /\ cmd.pc = "done" /\ cmd.result = "Timeout"
    /\ ~cmd.is_allocation /\ cmd.timeout # 0
    /\ cmd.slot = k /\ cmd.fence_id = s /\ cmd.target = v

\* A delivery of (s, v), the fence reached, has taken slot k out of Waiting and
\* is signaling its event object, or has done so.
DeliveredBy(k, s, v) ==
    /\ gpu_value[s] >= v
    /\ \/ DeliveryOn(k, "Waiting") /\ sig.syncpoint_id = s /\ sig.value = v
       \/ events[k].status = "Signalled" /\ Signaled(k)

\* C2: a resuming Wait with a nonzero timeout on a target that is not expired
\* after the refresh, that finds slot k registered, not busy and with fails <= 2,
\* arms it: it returns Timeout, leaves slot k Waiting on (s, v) (or already taken
\* out of Waiting by a delivery of (s, v)) and has called register_interrupt(s, v)
\* exactly once; and once the deliveries of (s, v)
\* have ended (none pending, none running) with no command in between, slot k
\* is Signalled and its event object signaled.
C2_ArmAndDeliver ==
    [][\A k \in Slots :
         /\ ( /\ Running("Wait", "wait_resolved") /\ cmd' # cmd
              /\ ~cmd.is_allocation /\ cmd.timeout # 0 /\ cmd.slot = k
              /\ events[k].registered /\ ~IsBeingUsed(events[k].status)
              /\ events[k].fails <= FailThreshold )
            => cmd'.pc = "arm_status"
         /\ ( /\ cmd.op = "Wait" /\ cmd.pc = "arm_register" /\ cmd'.pc = "done"
              /\ ~cmd.is_allocation /\ cmd.slot = k )
            => /\ cmd'.result = "Timeout"
               /\ \/ events'[k].status = "Waiting"
                  \/ DeliveredBy(k, cmd.fence_id, cmd.target)'
               /\ events'[k].assigned_syncpt = cmd.fence_id
               /\ events'[k].assigned_value = cmd.target
               /\ BridgeCalls("register_interrupt")' =
                      << <<"register_interrupt", cmd.fence_id, cmd.target>> >>
         /\ \A f \in Fences :
              ( /\ ArmedBy(k, f[1], f[2])
                /\ interrupts[f] = 0 /\ sig.pc = "idle" )'
              => ( /\ events[k].status = "Signalled"
                   /\ Signaled(k) )'
      ]_vars

\* C3: a Wait on a nonzero target that is not expired after the refresh, whose
\* slot has fails > 2, takes the synchronous fallback whatever its timeout and
\* whatever the slot's registered flag and status: it stalls and calls
\* blocking_wait(syncpoint, target), and when that call returns the Wait returns
\* Success with the reported value equal to the target.
C3_FailingSlotFallsBack ==
    [][/\ ( /\ Running("Wait", "wait_resolved") /\ cmd' # cmd
            /\ cmd.slot < MaxNvEvents
            /\ events[cmd.slot].fails > FailThreshold )
          => cmd'.pc = "wait_fence"
       /\ ( /\ Running("Wait", "wait_fence") /\ cmd'.pc = "done"
            /\ cmd'.result # "Aborted" )
          => /\ cmd'.result = "Success"
             /\ cmd'.out_value.raw = cmd.target
             /\ bridge_log'[Len(bridge_log')] =
                    <<"blocking_wait", cmd.fence_id, cmd.target>>
      ]_vars

\* C4: whenever a Wait has stalled the processes, the stall is released by the
\* time the Wait has returned, the abort of the blocking wait included.
C4_StallReleasedOnReturn ==
    cmd.pc = "done" => ~stalled

\* This step is the guest issuing the ioctl `op`.
Issues(op) == budget'.cmds # budget.cmds /\ cmd'.op = op

\* This step is the ioctl in flight returning (at once, or after more steps).
Returns == cmd'.pc = "done" /\ (cmd.pc # "done" \/ budget'.cmds # budget.cmds)

\* C5: Register(id) on a slot whose status is busy returns Busy at once and
\* changes nothing: the slot table, the registered-mask and the host event
\* objects are as they were (nothing created, nothing freed).
C5_RegisterBusyChangesNothing ==
    [][\A id \in Slots :
         ( /\ Issues("Register") /\ cmd'.event_id = id
           /\ IsBeingUsed(events[id].status) )
         => /\ cmd'.pc = "done" /\ cmd'.result = "Busy"
            /\ events' = events /\ events_mask' = events_mask /\ kheap' = kheap
      ]_vars

\* The host event object slot k owns is live (created and not freed).
OwnsLiveEvent(k) ==
    events[k].kevent # NoKEvent /\ kheap[events[k].kevent] \in {"clear", "signaled"}

\* Unregister-batch has returned: either Success with every set bit processed
\* and its slot unregistered, or the result of the first slot b whose free was
\* not Success, with every lower set bit's slot unregistered and every higher
\* set bit still in the mask, unprocessed.
BatchReturned ==
    (cmd.op = "UnregisterBatch" /\ cmd.pc = "done") =>
        \/ /\ cmd.result = "Success"
           /\ cmd.event_mask = {}
           /\ \A j \in cmd.user_events :
                 j < MaxNvEvents /\ ~events[j].registered /\ events[j].kevent = NoKEvent
        \/ /\ cmd.result \in {"Busy", "BadParameter"}
           /\ cmd.slot \in cmd.user_events
           /\ cmd.event_mask = {j \in cmd.user_events : j > cmd.slot}
           /\ \A j \in cmd.user_events :
                 j < cmd.slot => ~events[j].registered /\ events[j].kevent = NoKEvent
           /\ cmd.result = "Busy" =>
                 /\ cmd.slot < MaxNvEvents
                 /\ events[cmd.slot].registered /\ OwnsLiveEvent(cmd.slot)
           /\ cmd.result = "BadParameter" => cmd.slot >= MaxNvEvents

\* C6: Unregister-batch takes the set bits of its mask in ascending order and
\* stops at the first slot whose free is not Success: the lower set bits' slots
\* are freed, the result is that slot's result (Busy for a busy slot, which is
\* busy as the batch returns), and no step of the batch writes a slot other
\* than the one it is freeing - the slot that stopped it and the slots of the
\* higher set bits are left as they were; with no such slot every set bit's
\* slot is freed and the result is Success.
C6_BatchStopsAtFirstFailure ==
    [][/\ BatchReturned'
       /\ ( /\ cmd.op = "UnregisterBatch" /\ cmd.pc # "done" /\ cmd'.pc = "done"
            /\ cmd'.result = "Busy" )
          => /\ IsBeingUsed(events'[cmd'.slot].status)
             /\ events' = events /\ events_mask' = events_mask /\ kheap' = kheap
       /\ (cmd.op = "UnregisterBatch" /\ cmd.pc # "done" /\ cmd' # cmd)
          => /\ \A j \in Slots :
                  events'[j] # events[j] =>
                      /\ j = cmd.slot /\ j \notin cmd.event_mask
                      /\ cmd.pc \in {"free_null", "free_status", "free_mask"}
             /\ cmd.pc = "batch_loop" /\ cmd.event_mask # {} =>
                  /\ cmd'.slot = CountrZero(cmd.event_mask)
                  /\ \A j \in cmd'.event_mask : j > cmd'.slot
      ]_vars

\* C6 witness: a batch over slots 0 and 1 has freed slot 0 and returned Busy
\* on slot 1.
C6_FreedLowerStoppedAtBusy ==
    /\ cmd.op = "UnregisterBatch" /\ cmd.pc = "done" /\ cmd.result = "Busy"
    /\ cmd.user_events = {0, 1} /\ cmd.slot = 1
    /\ ~events[0].registered /\ \E h \in KEvents : kheap[h] = "freed"
    /\ events[1].registered /\ events[1].status = "Waiting"

\* Slot record e with its fails counter left out of the comparison.
ButFails(e) == [e EXCEPT !.fails = 0]

\* C7: a Wait with timeout 0 on a nonzero target returns Success with the
\* oracle's minimum when the target is expired before or after the refresh;
\* when it is not, no step of the Wait creates, registers or arms a slot or
\* changes a status, an assigned fence, the mask, an event object or the
\* bridge's pending interrupts (the fails counters apart), and the Wait of a
\* slot in range with fails <= 2 returns Timeout; the allocating and the
\* resuming variant alike.
C7_PollChangesNothing ==
    [][/\ ( /\ Issues("Wait") /\ cmd'.timeout = 0 /\ cmd'.fence_value # 0
            /\ cmd'.fence_id < MaxSyncPoints
            /\ gpu_value[cmd'.fence_id] >= cmd'.fence_value )
          => /\ cmd'.pc = "done" /\ cmd'.result = "Success"
             /\ cmd'.out_value.raw = syncpt_min'[cmd'.fence_id]
       /\ ( /\ cmd'.op = "Wait" /\ cmd'.timeout = 0 /\ cmd' # cmd )
          => /\ \A k \in Slots : ButFails(events'[k]) = ButFails(events[k])
             /\ events_mask' = events_mask
             /\ kheap' = kheap
             /\ interrupts' = interrupts
       /\ ( /\ Running("Wait", "wait_resolved") /\ cmd.timeout = 0 /\ cmd' # cmd
            /\ cmd.slot < MaxNvEvents /\ events[cmd.slot].fails <= FailThreshold )
          => cmd'.pc = "done" /\ cmd'.result = "Timeout"
      ]_vars

\* C9: when FindFreeNvEvent finds every slot registered and busy, the
\* allocating Wait goes on with slot 0 and does not return BadParameter or Busy.
C9_ExhaustionIsNoError ==
    (cmd.op = "Wait" /\ cmd.pc = "done" /\ cmd.alloc = "exhausted") =>
        /\ cmd.slot = 0
        /\ cmd.result \notin {"BadParameter", "Busy"}

\* Slot j is registered and not busy.
Idle(j) == events[j].registered /\ ~IsBeingUsed(events[j].status)

\* C8: FindFreeNvEvent(syncpoint_id) returns, on every table, (a) a registered
\* not-busy slot assigned to syncpoint_id if there is one, creating nothing;
\* (b) else the lowest unregistered slot if there is one, which it creates;
\* (c) else a registered not-busy slot if there is one; (d) else 0.  A busy
\* slot is returned in case (d) only.
C8_AllocationPreference ==
    [][/\ (cmd.pc = "find_loop" /\ cmd'.pc # "find_loop") =>
            LET same == {j \in Slots : Idle(j) /\ events[j].assigned_syncpt = cmd.fence_id}
                free == {j \in Slots : ~events[j].registered}
                idle == {j \in Slots : Idle(j)}
                r == cmd'.slot
            IN /\ same # {} => r \in same /\ cmd'.pc = "wait_resolved"
               /\ (same = {} /\ free # {}) => r = Min(free) /\ cmd'.pc = "create_assert"
               /\ (same = {} /\ free = {} /\ idle # {}) =>
                      r \in idle /\ cmd'.pc = "wait_resolved"
               /\ (same = {} /\ free = {} /\ idle = {}) =>
                      r = 0 /\ cmd'.pc = "wait_resolved"
               /\ (events[r].registered /\ IsBeingUsed(events[r].status)) =>
                      (same = {} /\ free = {} /\ idle = {})
       /\ (cmd.pc = "create_syncpt" /\ cmd'.pc = "wait_resolved") =>
            /\ events'[cmd.slot].registered /\ OwnsLiveEvent(cmd.slot)'
            /\ \A j \in Slots \ {cmd.slot} : events'[j].kevent # events'[cmd.slot].kevent
       /\ (cmd.pc = "find_loop") => UNCHANGED <<events, events_mask, kheap>>
      ]_vars

\* C8 witness: with slot 0 registered and idle on another syncpoint, the scan
\* has passed it over and created slot 1.
C8_CreatedPastIdleSlot ==
    /\ cmd.pc = "wait_resolved" /\ cmd.alloc = "create" /\ cmd.slot = 1
    /\ Idle(0) /\ events[0].assigned_syncpt # cmd.fence_id
    /\ events[1].registered /\ OwnsLiveEvent(1)

\* C10: Register(id); Unregister(id); Register(id), from a state in which slot
\* id is not busy, returns Success three times and ends with slot id registered,
\* not busy and owning a live event object no other slot owns, the event object
\* of the first Register freed (once: the host is not stopped by a double free).
C10_RegisterRoundTrip ==
    [][ /\ (budget'.trip >= 1 /\ Returns) => cmd'.result = "Success"
        /\ budget'.trip >= 1 => fault' # "double_free"
        /\ (budget'.trip = 3 /\ Returns) =>
              /\ events'[0].registered /\ 0 \in events_mask'
              /\ ~IsBeingUsed(events'[0].status)
              /\ OwnsLiveEvent(0)'
              /\ \A j \in Slots \ {0} : events'[j].kevent # events'[0].kevent
              /\ budget.first # NoKEvent
              /\ kheap'[budget.first] = "freed"
              /\ events'[0].kevent # budget.first
      ]_vars

C13_RegisterCreatesFreshSlot ==
    [][/\ ( /\ cmd.op = "Register" /\ cmd.pc # "done" /\ cmd'.pc = "done"
            /\ cmd'.result = "Success" )
          => LET id == cmd.event_id IN
               /\ events'[id].status = "Available"
               /\ events'[id].registered
               /\ events'[id].fails = 0
               /\ events'[id].assigned_syncpt = 0
               /\ id \in events_mask'
               /\ events'[id].kevent # NoKEvent
               /\ kheap'[events'[id].kevent] = "clear"
               /\ \A j \in Slots \ {id} : events'[j].kevent # events'[id].kevent
       /\ ( /\ cmd.op = "Register" /\ cmd.pc = "create_kevent" /\ cmd' # cmd )
          => /\ kheap[events'[cmd.slot].kevent] = "unused"
             /\ cmd'.pc # "done"
       /\ ( /\ Issues("Register") /\ cmd'.event_id >= MaxNvEvents )
          => /\ cmd'.pc = "done" /\ cmd'.result = "BadParameter"
             /\ UNCHANGED <<events, events_mask, kheap, interrupts>>
      ]_vars

\* C14: a non-allocating Wait that exits on a fast path (target 0, expired,
\* expired after the refresh) resets the fails counter of the slot it names and
\* no other; from the slot resolution onward (the poll's Timeout, BadParameter,
\* the fallback, the arming) no step of a non-allocating Wait changes the fails
\* counter of any slot.
C14_OnlyFastPathResetsFails ==
    [][/\ ( /\ Issues("Wait") /\ ~cmd'.is_allocation /\ cmd'.pc = "done"
            /\ cmd'.result = "Success" /\ cmd'.event_id < MaxNvEvents )
          => \A k \in Slots :
                events'[k].fails = IF k = cmd'.event_id THEN 0 ELSE events[k].fails
       /\ ( /\ cmd.op = "Wait" /\ cmd.pc # "done" /\ ~cmd.is_allocation
            /\ cmd' # cmd )
          => \A k \in Slots : events'[k].fails = events[k].fails
      ]_vars

\* C15: the fails counter counts the cancellations of consecutive wait cycles:
\* after FailThreshold + 1 cycles on slot 0 of a resuming Wait that arms the
\* slot and returns Timeout followed by a Clear-wait, with no other command in
\* between, the counter of slot 0 is FailThreshold + 1 as the last Clear-wait
\* returns, and the next Wait on slot 0 whose target is not expired after the
\* refresh takes the synchronous fallback.
C15_CancelledCyclesReachFallback ==
    [][/\ (budget'.trip = 2 * WaitCycles + 1 /\ Returns)
          => events'[0].fails = WaitCycles
       /\ ( /\ budget.trip = 2 * WaitCycles + 2
            /\ Running("Wait", "wait_resolved") /\ cmd' # cmd )
          => cmd'.pc = "wait_fence"
      ]_vars

\* A Wait (allocating or resuming) has armed slot k on fence f and returned
\* Timeout, and no command has been issued since.
WaitArmed(k, f) ==
    /\ cmd.op = "Wait" /\ cmd.pc = "done" /\ cmd.result = "Timeout"
    /\ cmd.timeout # 0
    /\ cmd.slot = k /\ cmd.fence_id = f[1] /\ cmd.target = f[2]

\* C16: every armed wait is completed by its delivery: once a Wait has armed
\* slot k on fence (s, v) and the deliveries of (s, v) have run to completion
\* (the interrupt the Wait registered has been raised, no delivery is running),
\* with no command issued since the arming, slot k is Signalled and its event
\* object is signaled - whatever was in flight on slot k as the Wait armed it.
C16_ArmedWaitIsDelivered ==
    \A k \in Slots, f \in Fences :
        (WaitArmed(k, f) /\ interrupts[f] = 0 /\ sig.pc = "idle" /\ fault = "none")
        => events[k].status = "Signalled" /\ Signaled(k)

\* The fence of the wait armed on slot k: the one of the Wait that has stored
\* Waiting and is writing the slot's fence, else the fence the slot records.
ArmedFence(k) ==
    IF /\ cmd.op = "Wait" /\ cmd.slot = k
       /\ cmd.pc \in {"arm_syncpt", "arm_value", "arm_register"}
    THEN <<cmd.fence_id, cmd.target>>
    ELSE <<events[k].assigned_syncpt, events[k].assigned_value>>

\* C17: when SignalNvEvent(s, v) takes a slot out of Waiting, and when it then
\* signals the slot's event object, the wait armed on that slot is for fence
\* (s, v) - also while the Wait that published Waiting is still writing
\* assigned_syncpt and assigned_value.
C17_DeliverySignalsItsOwnFence ==
    [][/\ (sig.pc = "exchange" /\ sig'.pc = "load_kevent")
          => ArmedFence(sig.event_id) = <<sig.syncpoint_id, sig.value>>
       /\ (sig.pc = "signal" /\ sig'.pc = "store")
          => ArmedFence(sig.event_id) = <<sig.syncpoint_id, sig.value>>
      ]_vars

\* The edges of the slot state machine, the reset to Available apart.
StatusEdges ==
    {<<"Available", "Waiting">>,
     <<"Waiting", "Signalling">>, <<"Signalling", "Signalled">>,
     <<"Waiting", "Cancelling">>, <<"Cancelling", "Cancelled">>,
     <<"Signalled", "Waiting">>, <<"Cancelled", "Waiting">>}

\* C18: a slot's status changes only along the edges of the state machine, or
\* is reset to Available by CreateNvEvent / FreeNvEvent; so a slot enters
\* Signalling or Cancelling from Waiting only, and a delivery or a Clear-wait
\* on an Available, Signalled or Cancelled slot leaves its status alone.
C18_StatusFollowsTheStateMachine ==
    [][\A k \in Slots :
         events'[k].status # events[k].status =>
            \/ <<events[k].status, events'[k].status>> \in StatusEdges
            \/ /\ events'[k].status = "Available"
               /\ cmd.pc \in {"create_status", "free_status"}
               /\ cmd.slot = k /\ cmd' # cmd
      ]_vars

\* Slot k keeps its status and its assigned fence in this step.
KeepsWait(k) ==
    /\ events'[k].status = events[k].status
    /\ events'[k].assigned_syncpt = events[k].assigned_syncpt
    /\ events'[k].assigned_value = events[k].assigned_value

\* C19: a busy slot is never freed or re-armed: Unregister and Register on a
\* busy slot return Busy at once and Unregister-batch returns Busy as it comes
\* to a busy slot, the table, the mask and the event objects unchanged; a
\* resuming Wait with a nonzero timeout that resolves to a busy slot returns
\* BadParameter and leaves its status and assigned fence; FreeNvEvent never
\* releases the event object of a busy slot and no Wait, allocating or
\* resuming, stores Waiting into a busy slot.
C19_BusySlotIsLeftAlone ==
    [][/\ \A id \in Slots :
            ( /\ Issues("Unregister") \/ Issues("Register")
              /\ cmd'.slot = id /\ IsBeingUsed(events[id].status) )
            => /\ cmd'.pc = "done" /\ cmd'.result = "Busy"
               /\ UNCHANGED <<events, events_mask, kheap>>
       /\ ( /\ Running("UnregisterBatch", "batch_loop") /\ cmd' # cmd
            /\ cmd.event_mask # {} /\ CountrZero(cmd.event_mask) < MaxNvEvents
            /\ IsBeingUsed(events[CountrZero(cmd.event_mask)].status) )
          => /\ cmd'.pc = "done" /\ cmd'.result = "Busy"
             /\ UNCHANGED <<events, events_mask, kheap>>
       /\ ( /\ Running("Wait", "wait_resolved") /\ cmd' # cmd
            /\ cmd.timeout # 0 /\ cmd.slot < MaxNvEvents
            /\ IsBeingUsed(events[cmd.slot].status) )
          => /\ cmd'.pc = "done" /\ cmd'.result = "BadParameter"
             /\ KeepsWait(cmd.slot)
       /\ (cmd.pc = "free_kevent" /\ cmd' # cmd)
          => ~IsBeingUsed(events[cmd.slot].status)
       /\ (cmd.pc = "arm_status" /\ cmd' # cmd)
          => ~IsBeingUsed(events[cmd.slot].status)
      ]_vars

\* SignalNvEvent(s, v) is running and slot j is registered with assigned fence
\* (s, v).
Matches(j) ==
    /\ events[j].registered
    /\ events[j].assigned_syncpt = sig.syncpoint_id
    /\ events[j].assigned_value = sig.value

\* C20: SignalNvEvent(s, v) running alone signals the event object of a slot if
\* and only if the slot is registered, its assigned fence is (s, v) and its
\* exchange found Waiting there: the exchange is run on matching slots only and
\* leads to Signal exactly when it finds Waiting, Signal signals the event
\* object the slot owns and no other step changes an event object; as the
\* delivery ends every registered slot on (s, v) is Signalled; and no step
\* changes anything in the table but the status of a matching slot.
C20_DeliveryAlone ==
    [][LET k == sig.event_id IN
       /\ (sig.pc = "exchange" /\ sig' # sig)
          => /\ Matches(k)
             /\ (events[k].status = "Waiting") <=> (sig'.pc = "load_kevent")
             /\ sig'.pc \in {"load_kevent", "store"}
       /\ (sig.pc = "load_kevent" /\ sig' # sig)
          => sig'.pc = "signal" /\ sig'.kevent = events[k].kevent
       /\ (sig.pc = "signal" /\ sig' # sig)
          => /\ sig.prior = "Waiting" /\ Matches(k)
             /\ sig'.pc = "store" /\ Signaled(k)'
       /\ kheap' # kheap
          => /\ sig.pc = "signal"
             /\ kheap' = [kheap EXCEPT ![events[k].kevent] = "signaled"]
       /\ \A j \in Slots :
            events'[j] # events[j]
            => /\ j = k /\ Matches(j)
               /\ events'[j] = [events[j] EXCEPT !.status = events'[j].status]
       /\ (sig.pc = "loop" /\ sig'.pc = "idle")
          => \A j \in Slots : Matches(j) => events[j].status = "Signalled"
       /\ events_mask' = events_mask
      ]_vars

\* C20 witness: a delivery has run to completion on two registered slots with
\* its fence; slot 0, which was Waiting, has been signaled and slot 1, which
\* was not, has not, and both are Signalled.
C20_SignaledTheWaitingSlotOnly ==
    /\ sig.pc = "idle" /\ \A f \in Fences : interrupts[f] = 0
    /\ events[0].registered /\ events[1].registered
    /\ events[0].assigned_syncpt = events[1].assigned_syncpt
    /\ events[0].assigned_value = events[1].assigned_value
    /\ events[0].status = "Signalled" /\ Signaled(0)
    /\ events[1].status = "Signalled" /\ ~Signaled(1)

\* C21: Clear-wait running alone on a registered slot in range returns Success
\* with the slot Cancelled, its event object clear and its fails counter one
\* higher (the counter changes in one step only, by one, and the command takes
\* that step once); it has called cancel_interrupt on the slot's assigned fence
\* and then refreshed the oracle for the assigned syncpoint if its exchange
\* found Waiting, and has made no bridge call otherwise; it changes no other
\* slot.  With a slot id >= MaxNvEvents it returns BadParameter at once and
\* changes nothing.
C21_ClearWaitAlone ==
    [][LET k == cmd'.slot
           f == <<events'[k].assigned_syncpt, events'[k].assigned_value>>
       IN
       /\ ( /\ Issues("ClearEventWait") /\ cmd'.event_id >= MaxNvEvents )
          => /\ cmd'.pc = "done" /\ cmd'.result = "BadParameter"
             /\ bridge_log' = <<>>
             /\ UNCHANGED <<events, events_mask, kheap, interrupts, syncpt_min>>
       /\ ( /\ Issues("ClearEventWait") /\ cmd'.event_id < MaxNvEvents )
          => /\ cmd'.pc \in {"clear_cancel", "clear_fails"}
             /\ (cmd'.pc = "clear_cancel") <=> (events[k].status = "Waiting")
             /\ cmd'.prior = events[k].status
             /\ events'[k].fails = events[k].fails
       /\ ( /\ cmd.op = "ClearEventWait" /\ cmd.pc # "done" /\ cmd' # cmd )
          => /\ k = cmd.slot
             /\ \A j \in Slots \ {k} : events'[j] = events[j]
             /\ events_mask' = events_mask
             /\ events'[k].fails # events[k].fails
                => /\ cmd.pc = "clear_fails" /\ cmd'.pc = "clear_kevent"
                   /\ events'[k].fails = events[k].fails + 1
             /\ cmd.pc = "clear_fails" => events'[k].fails # events[k].fails
             /\ cmd'.pc = "clear_fails"
                => cmd.pc = "clear_refresh"
             /\ cmd.pc = "clear_cancel"
                => interrupts' = CancelSyncptInterrupt(interrupts, f)
             /\ cmd.pc # "clear_cancel" => interrupts' = interrupts
       /\ ( /\ cmd.op = "ClearEventWait" /\ cmd.pc # "done" /\ cmd'.pc = "done"
            /\ events[k].registered )
          => /\ cmd'.result = "Success"
             /\ fault' = "none"
             /\ events'[k].status = "Cancelled"
             /\ events'[k].kevent # NoKEvent
             /\ kheap'[events'[k].kevent] = "clear"
             /\ bridge_log' =
                   IF cmd.prior = "Waiting"
                   THEN << <<"cancel_interrupt", f[1], f[2]>>,
                           <<"refresh", f[1], 0>> >>
                   ELSE <<>>
             /\ cmd.prior = "Waiting" => syncpt_min'[f[1]] = gpu_value[f[1]]
      ]_vars

\* C21 witness: a Clear-wait on a registered slot that was Waiting has
\* returned, its interrupt cancelled, the oracle refreshed, the slot Cancelled
\* with MaxFails failures counted.
C21_CancelledAnArmedWait ==
    /\ cmd.op = "ClearEventWait" /\ cmd.pc = "done" /\ cmd.result = "Success"
    /\ cmd.prior = "Waiting" /\ Len(bridge_log) = 2
    /\ events[cmd.slot].registered /\ events[cmd.slot].status = "Cancelled"
    /\ events[cmd.slot].fails = MaxFails
    /\ \A f \in Fences : interrupts[f] = 0

\* C22: whenever no command is in flight (and the owner is not torn down),
\* for every slot i: bit i of events_mask is set if and only if slot i is
\* registered, if and only if slot i owns an event object, which is live.
C22_MaskRegisteredOwned ==
    (cmd.pc = "done" /\ cmd.op # "Destroy") =>
        \A i \in Slots :
            /\ (i \in events_mask) <=> events[i].registered
            /\ events[i].registered <=> (events[i].kevent # NoKEvent)
            /\ events[i].kevent # NoKEvent =>
                  kheap[events[i].kevent] \in {"clear", "signaled"}

\* C22 witness: a Register has returned Success on a slot that was not
\* registered, beside a registered slot.
C22_RegisteredBesideAnother ==
    /\ cmd.op = "Register" /\ cmd.pc = "done" /\ cmd.result = "Success"
    /\ events_mask = {0, 1}
    /\ events[0].kevent # events[1].kevent
    /\ \A i \in {0, 1} : events[i].registered /\ OwnsLiveEvent(i)

Live(k) == kheap[k] \in {"clear", "signaled"}
TornDown == cmd.op = "Destroy" /\ cmd.pc = "done"

\* C23: event-object ownership is exact.  No step frees an object that is not
\* live (none is freed twice); an object is freed only by Unregister,
\* Unregister-batch, Register or the teardown; whenever no command is in flight
\* the live objects are as many as the registered slots; and once the teardown
\* has returned no object is live (none is leaked).
C23_OwnershipIsExact ==
    [][/\ fault' # "double_free"
       /\ \A k \in KEvents :
             (kheap[k] # "freed" /\ kheap'[k] = "freed") =>
                /\ Live(k)
                /\ cmd.op \in {"Unregister", "UnregisterBatch", "Register",
                               "Destroy"}
       /\ (cmd'.pc = "done" /\ cmd'.op # "Destroy") =>
             Cardinality({k \in KEvents : Live(k)'})
               = Cardinality({i \in Slots : events'[i].registered})
       /\ TornDown' => \A k \in KEvents : ~Live(k)']_vars

\* C23 witness: the teardown has returned after a Register that replaced a
\* registered slot's object; every object was created and each is freed.
C23_AllCreatedAllFreed ==
    /\ TornDown
    /\ fault = "none"
    /\ budget.cmds = 1
    /\ \A k \in KEvents : kheap[k] = "freed"

\* C24: Wait never reads or writes a slot-table entry with an index
\* >= MaxNvEvents: no Wait, whatever its raw slot word, allocation flag, fence
\* and timeout, makes an access past the end of the table, the reset of the
\* fails counter on exit included.
C24_WaitStaysInRange ==
    ~(cmd.op = "Wait" /\ fault = "out_of_bounds")

\* C25: signal delivery never signals an event object that its slot no longer
\* owns: from the step in which a delivery wins the exchange out of Waiting on
\* a slot until it has called signal, the slot keeps its event object and no
\* step frees that object.
C25_SignalsOwnedObject ==
    [][sig.pc \in {"load_kevent", "signal"} =>
          LET k == events[sig.event_id].kevent IN
            /\ k # NoKEvent
            /\ kheap[k] \in {"clear", "signaled"}
            /\ events'[sig.event_id].kevent = k
            /\ kheap'[k] \in {"clear", "signaled"}]_vars

\* C26: Clear-wait touches an event object only when one exists: for every
\* in-range slot id, a Clear-wait that has come to its clear finds a live event
\* object owned by the slot, and a Clear-wait that has returned returned Success.
C26_ClearsALiveObject ==
    (cmd.op = "ClearEventWait" /\ cmd.event_id < MaxNvEvents) =>
        /\ cmd.pc = "clear_kevent" => OwnsLiveEvent(cmd.event_id)
        /\ cmd.pc = "done" => cmd.result = "Success"

Busy(k) == events[k].status \in {"Cancelling", "Signalling"}
Settled(k) == events[k].status \in {"Cancelled", "Signalled"}

C28_UnregisterIsIdempotent ==
    [][Issues("Unregister") =>
          LET id == cmd'.event_id % (UnregisterIdMask + 1) IN
            /\ (id < MaxNvEvents /\ ~events[id].registered) =>
                  /\ cmd'.pc = "done" /\ cmd'.result = "Success"
                  /\ UNCHANGED <<events, events_mask, kheap>>
            /\ id >= MaxNvEvents =>
                  /\ cmd'.pc = "done" /\ cmd'.result = "BadParameter"
                  /\ UNCHANGED <<events, events_mask, kheap>>
            /\ ( /\ cmd.op = "Unregister" /\ cmd.pc = "done"
                 /\ cmd.event_id = cmd'.event_id ) =>
                  /\ cmd'.pc = "done" /\ cmd'.result = cmd.result
                  /\ UNCHANGED <<events, events_mask, kheap>>]_vars

\* C28 witness: the second Unregister of a slot has returned Success after the
\* first one freed the slot's event object.
C28_SecondAfterFree ==
    /\ cmd.op = "Unregister" /\ cmd.pc = "done" /\ cmd.result = "Success"
    /\ budget.cmds = 2
    /\ cmd.slot < MaxNvEvents
    /\ ~events[cmd.slot].registered
    /\ kheap[cmd.slot + 1] = "freed"

====
